---- MODULE Spec2Model ----
(***************************************************************************)
(* Birthday reminder bot: the storage layer (src/database.py), the         *)
(* interaction handlers and the reminder scheduler (src/main.py).          *)
(*                                                                         *)
(* Dates are records [year, month, day]; name texts are sequences of code  *)
(* points; a date text "DD.MM.YYYY" is the triple <<DD, MM, YYYY>> of the   *)
(* numbers it spells; the stored ISO text "YYYY-MM-DD" is <<YYYY, MM, DD>>. *)
(* A Python call that may raise returns [raised, val].                     *)
(***************************************************************************)
EXTENDS Integers, Sequences, FiniteSets, TLC

VARIABLES
    today,          \* date.today() of the host clock
    rows,           \* table birthdays: set of [id, name, birthday_date, user_id]
    next_id,        \* the AUTOINCREMENT counter of birthdays.id
    active_users,   \* main.active_users
    fsm,            \* MemoryStorage: user -> [state, name]
    interacted,     \* history: users that produced an event since process start
    pc,             \* send_birthday_reminders: "sleeping" | "fetching" | "sending"
    sleep_secs,     \* argument of the asyncio.sleep the scheduler is in (0: none yet)
    user_reminders, \* the tick's groups: sequence of [user_id, persons]
    gi,             \* index of the group of the send in flight
    pi,             \* index, in its group, of the person of the send in flight
    checked,        \* history: groups reached this tick, [user_id, member]
    log,            \* history: deliveries completed this tick, [id, user_id, ok]
    fn_birthday,    \* argument birthday of a call of the date functions
    fn_today,       \* argument today of a call of the date functions
    fn_age,         \* what calculate_age returned for them ([raised, val]; <<>>: not called)
    fn_days         \* what days_until_birthday returned for them (<<>>: not called)

vars == <<today, rows, next_id, active_users, fsm, interacted,
          pc, sleep_secs, user_reminders, gi, pi, checked, log,
          fn_birthday, fn_today, fn_age, fn_days>>

fnVars == <<fn_birthday, fn_today, fn_age, fn_days>>
botVars == <<today, rows, next_id, active_users, fsm, interacted,
             pc, sleep_secs, user_reminders, gi, pi, checked, log>>

dbVars == <<rows, next_id>>
schedVars == <<pc, sleep_secs, user_reminders, gi, pi, checked, log>>

----------------------------------------------------------------------------
(* Bounds of the model *)

\* Telegram user ids are 1..MaxUsers
MaxUsers == 2
\* at most this many rows are ever inserted
MaxRows == 2
\* the clock advances at most this many days past FirstDay
MaxDays == 2

Users == 1..MaxUsers

----------------------------------------------------------------------------
(* Calendar arithmetic of datetime.date *)

Date(y, m, d) == [year |-> y, month |-> m, day |-> d]

IsLeap(y) == (y % 4 = 0) /\ ((y % 100 # 0) \/ (y % 400 = 0))

DaysInMonth(y, m) ==
    IF m = 2 THEN (IF IsLeap(y) THEN 29 ELSE 28)
    ELSE IF m \in {4, 6, 9, 11} THEN 30 ELSE 31

\* date(y, m, d) raises ValueError unless this holds
ValidDate(y, m, d) ==
    /\ y \in 1..9999
    /\ m \in 1..12
    /\ d >= 1
    /\ d <= DaysInMonth(y, m)

RECURSIVE DaysBeforeMonth(_, _)
DaysBeforeMonth(y, m) ==
    IF m = 1 THEN 0 ELSE DaysBeforeMonth(y, m - 1) + DaysInMonth(y, m - 1)

DaysBeforeYear(y) ==
    LET p == y - 1 IN 365 * p + (p \div 4) - (p \div 100) + (p \div 400)

\* date.toordinal()
ToOrdinal(dt) == DaysBeforeYear(dt.year) + DaysBeforeMonth(dt.year, dt.month) + dt.day

\* (a.month, a.day) < (b.month, b.day)
MonthDayLT(a, b) == (a.month < b.month) \/ (a.month = b.month /\ a.day < b.day)

\* a < b on dates
DateLT(a, b) == (a.year < b.year) \/ (a.year = b.year /\ MonthDayLT(a, b))

\* the day after dt
NextDay(dt) ==
    IF dt.day < DaysInMonth(dt.year, dt.month) THEN Date(dt.year, dt.month, dt.day + 1)
    ELSE IF dt.month < 12 THEN Date(dt.year, dt.month + 1, 1)
    ELSE Date(dt.year + 1, 1, 1)

Return(v) == [raised |-> FALSE, val |-> v]
Raise == [raised |-> TRUE, val |-> 0]

\* calculate_age with "<=" for "<" in the comparison of (month, day)
calculate_age_NotAfter(birthday, now) ==
    LET age == now.year - birthday.year IN
    IF MonthDayLT(now, birthday) \/ (now.month = birthday.month /\ now.day = birthday.day)
    THEN age - 1 ELSE age

\* BirthdayDatabase.calculate_age
calculate_age(birthday, now) ==
    LET age == now.year - birthday.year IN
    IF MonthDayLT(now, birthday) THEN age - 1 ELSE age

\* days_until_birthday with "next_birthday <= today" for "next_birthday < today"
days_until_birthday_NotAfter(birthday, now) ==
    IF ~ValidDate(now.year, birthday.month, birthday.day) THEN Raise
    ELSE LET this_year == Date(now.year, birthday.month, birthday.day) IN
         IF DateLT(this_year, now) \/ this_year = now
         THEN IF ~ValidDate(now.year + 1, birthday.month, birthday.day) THEN Raise
              ELSE Return(ToOrdinal(Date(now.year + 1, birthday.month, birthday.day))
                          - ToOrdinal(now))
         ELSE Return(ToOrdinal(this_year) - ToOrdinal(now))

\* days_until_birthday with a Feb 29 rolled forward to Mar 1 where the year has none
days_until_birthday_RollForward(birthday, now) ==
    LET Occurrence(y) == IF ValidDate(y, birthday.month, birthday.day)
                         THEN Date(y, birthday.month, birthday.day)
                         ELSE Date(y, 3, 1)
        this_year == Occurrence(now.year)
    IN  IF DateLT(this_year, now)
        THEN Return(ToOrdinal(Occurrence(now.year + 1)) - ToOrdinal(now))
        ELSE IF this_year = now THEN Return(0)
        ELSE Return(ToOrdinal(this_year) - ToOrdinal(now))

\* BirthdayDatabase.days_until_birthday; date(...) raises ValueError on Feb 29 of a
\* non-leap year
days_until_birthday(birthday, now) ==
    IF ~ValidDate(now.year, birthday.month, birthday.day) THEN Raise
    ELSE LET this_year == Date(now.year, birthday.month, birthday.day) IN
         IF DateLT(this_year, now)
         THEN IF ~ValidDate(now.year + 1, birthday.month, birthday.day) THEN Raise
              ELSE Return(ToOrdinal(Date(now.year + 1, birthday.month, birthday.day))
                          - ToOrdinal(now))
         ELSE IF this_year = now THEN Return(0)
         ELSE Return(ToOrdinal(this_year) - ToOrdinal(now))

\* date.isoformat(): "YYYY-MM-DD"
isoformat(dt) == <<dt.year, dt.month, dt.day>>

\* datetime.strptime(text, '%Y-%m-%d').date()
strptime_iso(text) ==
    IF Len(text) = 3 /\ ValidDate(text[1], text[2], text[3])
    THEN Return(Date(text[1], text[2], text[3]))
    ELSE Raise

\* datetime.strptime(text, '%d.%m.%Y').date()
strptime_dmy(text) ==
    IF Len(text) = 3 /\ ValidDate(text[3], text[2], text[1])
    THEN Return(Date(text[3], text[2], text[1]))
    ELSE Raise

----------------------------------------------------------------------------
(* Texts *)

\* str.strip() removes these
Whitespace == {32}

RECURSIVE lstrip(_)
lstrip(s) == IF s # <<>> /\ Head(s) \in Whitespace THEN lstrip(Tail(s)) ELSE s

RECURSIVE rstrip(_)
rstrip(s) ==
    IF s # <<>> /\ s[Len(s)] \in Whitespace THEN rstrip(SubSeq(s, 1, Len(s) - 1)) ELSE s

strip(s) == rstrip(lstrip(s))

\* a < b on strings (SQLite's BINARY collation of ORDER BY name)
RECURSIVE StrLT(_, _)
StrLT(a, b) ==
    IF b = <<>> THEN FALSE
    ELSE IF a = <<>> THEN TRUE
    ELSE IF Head(a) # Head(b) THEN Head(a) < Head(b)
    ELSE StrLT(Tail(a), Tail(b))

\* the name texts a user submits: " A", "Bo "
NameTexts == { <<32, 65>>, <<66, 111, 32>> }

\* the date texts a user submits, already stripped: "29.02.2020", "02.03.2000",
\* "01.01.2030" (in the future) and "30.02.2000" (no date)
DateTexts == { <<29, 2, 2020>>, <<2, 3, 2000>>, <<1, 1, 2030>>, <<30, 2, 2000>> }

\* the host clock when the process starts
FirstDay == Date(2024, 2, 28)

RECURSIVE DayNumber(_)
DayNumber(n) == IF n = 0 THEN FirstDay ELSE NextDay(DayNumber(n - 1))

LastDay == DayNumber(MaxDays)

----------------------------------------------------------------------------
(* src/database.py: BirthdayDatabase.  An Optional[int] argument is <<>> for   *)
(* None and <<n>> for the integer n.                                        *)

\* Python's truth value of an Optional[int]
Truthy(opt) == opt # <<>> /\ opt[1] # 0

\* ORDER BY name (rows of equal name in rowid order)
RowBefore(a, b) == StrLT(a.name, b.name) \/ (a.name = b.name /\ a.id < b.id)

RECURSIVE OrderByName(_)
OrderByName(S) ==
    IF S = {} THEN <<>>
    ELSE LET r == CHOOSE x \in S : \A y \in S \ {x} : RowBefore(x, y)
         IN  <<r>> \o OrderByName(S \ {r})

\* the SELECT of get_all_people
SelectRows(table, user_id) ==
    IF Truthy(user_id)
    THEN OrderByName({r \in table : r.user_id = user_id[1]})
    ELSE OrderByName(table)

\* one iteration of the loop of get_all_people: the dict of a row
PersonOf(row, now) ==
    LET parsed == strptime_iso(row.birthday_date) IN
    IF parsed.raised THEN Raise
    ELSE LET days == days_until_birthday(parsed.val, now) IN
         IF days.raised THEN Raise
         ELSE Return([id |-> row.id, name |-> row.name, birthday_date |-> parsed.val,
                      user_id |-> row.user_id,
                      age |-> calculate_age(parsed.val, now),
                      days_until |-> days.val])

\* BirthdayDatabase.get_all_people: an exception of a row's conversion propagates
get_all_people(table, user_id, now) ==
    LET selected == SelectRows(table, user_id) IN
    IF \E i \in 1..Len(selected) : PersonOf(selected[i], now).raised THEN Raise
    ELSE Return([i \in 1..Len(selected) |-> PersonOf(selected[i], now).val])

\* BirthdayDatabase.get_people_with_birthday_in_days
\* get_people_with_birthday_in_days with "<=" for "==" in the test of days_until
get_people_with_birthday_in_days_AtMost(table, days, now) ==
    LET people == get_all_people(table, <<>>, now) IN
    IF people.raised THEN Raise
    ELSE Return(SelectSeq(people.val, LAMBDA p : p.days_until <= days))

get_people_with_birthday_in_days(table, days, now) ==
    LET people == get_all_people(table, <<>>, now) IN
    IF people.raised THEN Raise
    ELSE Return(SelectSeq(people.val, LAMBDA p : p.days_until = days))

\* BirthdayDatabase.add_person: the table after the INSERT
add_person(table, id, name, birthday_date, user_id) ==
    table \cup { [id |-> id, name |-> name, birthday_date |-> isoformat(birthday_date),
                  user_id |-> user_id] }

\* BirthdayDatabase.delete_person: the table after the DELETE
delete_person(table, person_id) == {r \in table : r.id # person_id}

----------------------------------------------------------------------------
(* src/main.py: the interaction handlers.  A handler is one action; the    *)
(* dispatcher calls the first handler registered whose filter matches.     *)
(* The answer a handler sends is an output, given by its ..._answer         *)
(* operator from the state the handler starts in ("none": the handler ends *)
(* in an exception before it answers).                                     *)

\* active_users.add(user_id), the first statement of a handler
Activate(u) ==
    /\ active_users' = active_users \cup {u}
    /\ interacted' = interacted \cup {u}
    /\ UNCHANGED fnVars

\* a handler without that statement
NoActivate(u) ==
    /\ active_users' = active_users
    /\ interacted' = interacted \cup {u}
    /\ UNCHANGED fnVars

\* /start: answers the welcome text
cmd_start(u) ==
    /\ Activate(u)
    /\ UNCHANGED <<today, dbVars, fsm, schedVars>>

\* /help: answers the help text
cmd_help(u) ==
    /\ Activate(u)
    /\ UNCHANGED <<today, dbVars, fsm, schedVars>>

\* button add_person: asks for the name
callback_add_person(u) ==
    /\ Activate(u)
    /\ fsm' = [fsm EXCEPT ![u].state = "waiting_for_name"]
    /\ UNCHANGED <<today, dbVars, schedVars>>

show_list_answer(u) ==
    LET people == get_all_people(rows, <<u>>, today) IN
    IF people.raised THEN "none"
    ELSE IF people.val = <<>> THEN "list_empty" ELSE "list"

\* button show_list
callback_show_list(u) ==
    /\ Activate(u)
    /\ UNCHANGED <<today, dbVars, fsm, schedVars>>

delete_person_answer(u) ==
    LET people == get_all_people(rows, <<u>>, today) IN
    IF people.raised THEN "none"
    ELSE IF people.val = <<>> THEN "nothing_to_delete" ELSE "choose_delete"

\* button delete_person
callback_delete_person(u) ==
    /\ Activate(u)
    /\ UNCHANGED <<today, dbVars, fsm, schedVars>>

\* next((p for p in people if p['id'] == person_id), None) is not None
Found(people, person_id) == \E i \in 1..Len(people) : people[i].id = person_id

\* the path of callback_confirm_delete; db_ok: the DELETE raises no sqlite error
confirm_delete_path(u, person_id, db_ok) ==
    LET people == get_all_people(rows, <<u>>, today) IN
    IF people.raised THEN "raised"
    ELSE IF Found(people.val, person_id) /\ db_ok THEN "deleted"
    ELSE "delete_error"

confirm_delete_answer(u, person_id, db_ok) ==
    LET path == confirm_delete_path(u, person_id, db_ok) IN
    IF path = "raised" THEN "none" ELSE path

\* the table callback_confirm_delete leaves
confirm_delete_rows(u, person_id, db_ok) ==
    IF confirm_delete_path(u, person_id, db_ok) = "deleted"
    THEN delete_person(rows, person_id)
    ELSE rows

\* button delete_<person_id>
callback_confirm_delete(u, person_id, db_ok) ==
    /\ NoActivate(u)
    /\ rows' = confirm_delete_rows(u, person_id, db_ok)
    /\ UNCHANGED <<today, next_id, fsm, schedVars>>

\* button cancel: answers that the operation is cancelled
callback_cancel(u) ==
    /\ NoActivate(u)
    /\ UNCHANGED <<today, dbVars, fsm, schedVars>>

\* button help: answers the help text
callback_help(u) ==
    /\ NoActivate(u)
    /\ UNCHANGED <<today, dbVars, fsm, schedVars>>

\* len(name) < 1 for len(name) < 2
TooShortOffByOne(name) == name = <<>> \/ Len(name) < 1

\* not name or len(name) < 2
TooShort(name) == name = <<>> \/ Len(name) < 2

process_name_answer(u, text) ==
    IF TooShort(strip(text)) THEN "name_too_short" ELSE "ask_date"

\* a text message in state waiting_for_name
process_name(u, text) ==
    /\ fsm[u].state = "waiting_for_name"
    /\ Activate(u)
    /\ fsm' = IF TooShort(strip(text)) THEN fsm
              ELSE [fsm EXCEPT ![u] = [state |-> "waiting_for_date", name |-> strip(text)]]
    /\ UNCHANGED <<today, dbVars, schedVars>>

\* the path of process_date; db_ok: the INSERT raises no sqlite error.  The except
\* ValueError clause catches the ValueError of strptime ("parse_error") and that of
\* days_until_birthday, called after add_person has committed ("added_then_raised").
process_date_path(text, db_ok, now) ==
    LET parsed == strptime_dmy(text) IN
    IF parsed.raised THEN "parse_error"
    ELSE IF DateLT(now, parsed.val) THEN "future"
    ELSE IF ~db_ok THEN "add_failed"
    ELSE IF days_until_birthday(parsed.val, now).raised THEN "added_then_raised"
    ELSE "added"

process_date_answer(text, db_ok, now) ==
    LET path == process_date_path(text, db_ok, now) IN
    CASE path = "parse_error" -> "date_format_error"
      [] path = "future" -> "date_future"
      [] path = "add_failed" -> "add_error"
      [] path = "added_then_raised" -> "date_format_error"
      [] path = "added" -> "added"

\* state.clear()
Cleared(u) == [fsm EXCEPT ![u] = [state |-> "none", name |-> <<>>]]

\* a text message in state waiting_for_date
process_date(u, text, db_ok) ==
    /\ fsm[u].state = "waiting_for_date"
    /\ Activate(u)
    /\ LET path == process_date_path(text, db_ok, today) IN
       IF path \in {"added", "added_then_raised"}
       THEN /\ next_id <= MaxRows
            /\ rows' = add_person(rows, next_id, fsm[u].name, strptime_dmy(text).val, u)
            /\ next_id' = next_id + 1
            /\ fsm' = IF path = "added" THEN Cleared(u) ELSE fsm
       ELSE /\ UNCHANGED dbVars
            /\ fsm' = IF path = "add_failed" THEN Cleared(u) ELSE fsm
    /\ UNCHANGED <<today, schedVars>>

\* any other message: answers the hint
handle_other_messages(u) ==
    /\ fsm[u].state = "none"
    /\ Activate(u)
    /\ UNCHANGED <<today, dbVars, fsm, schedVars>>

\* an inbound event of user u and its handler
Interaction(u) ==
    \/ cmd_start(u)
    \/ cmd_help(u)
    \/ callback_add_person(u)
    \/ callback_show_list(u)
    \/ callback_delete_person(u)
    \/ \E person_id \in 1..(MaxRows + 1), db_ok \in BOOLEAN :
           callback_confirm_delete(u, person_id, db_ok)
    \/ callback_cancel(u)
    \/ callback_help(u)
    \/ \E text \in NameTexts : process_name(u, text)
    \/ \E text \in DateTexts, db_ok \in BOOLEAN : process_date(u, text, db_ok)
    \/ handle_other_messages(u)

----------------------------------------------------------------------------
(* src/main.py: send_birthday_reminders.  The task is suspended in          *)
(* asyncio.sleep ("sleeping"), ready to run the next iteration ("fetching") *)
(* or suspended in bot.send_message ("sending").                           *)

HourSecs == 3600
RecoverySecs == 60

\* the grouping loop: groups in the order their owner first appears
RECURSIVE GroupByUser(_, _)
GroupByUser(people, acc) ==
    IF people = <<>> THEN acc
    ELSE LET p == Head(people) IN
         IF \E i \in 1..Len(acc) : acc[i].user_id = p.user_id
         THEN GroupByUser(Tail(people),
                  [i \in 1..Len(acc) |->
                      IF acc[i].user_id = p.user_id
                      THEN [acc[i] EXCEPT !.persons = Append(@, p)]
                      ELSE acc[i]])
         ELSE GroupByUser(Tail(people),
                  Append(acc, [user_id |-> p.user_id, persons |-> <<p>>]))

\* the membership test left out
GroupEnteredAlways(user_id, active) == TRUE

\* if user_id in active_users
GroupEntered(user_id, active) == user_id \in active

\* the first group from g on that is entered (Len + 1: none)
RECURSIVE NextGroup(_, _, _)
NextGroup(groups, g, active) ==
    IF g > Len(groups) THEN g
    ELSE IF GroupEntered(groups[g].user_id, active) THEN g
    ELSE NextGroup(groups, g + 1, active)

\* the discard outside the except clause
AfterSendDiscardAlways(active, user_id, ok) == active \ {user_id}

\* active_users.clear() for active_users.discard(user_id)
AfterSendClear(active, user_id, ok) == IF ok THEN active ELSE {}

\* the except clause of a send: active_users.discard(user_id)
AfterSend(active, user_id, ok) == IF ok THEN active ELSE active \ {user_id}

\* whether the loop over persons goes on to the next person of the group: it does
\* whatever the outcome of the send
MorePersons(group, p, ok) == p < Len(group.persons)

\* run the loop over the groups from group g until a send suspends it or it ends
RunFrom(groups, g, active) ==
    LET n == NextGroup(groups, g, active)
        last == IF n > Len(groups) THEN Len(groups) ELSE n
    IN  /\ checked' = checked \o
               [i \in 1..(last - g + 1) |->
                   [user_id |-> groups[g + i - 1].user_id,
                    member |-> GroupEntered(groups[g + i - 1].user_id, active)]]
        /\ IF n > Len(groups)
           THEN pc' = "sleeping" /\ sleep_secs' = HourSecs /\ gi' = 0 /\ pi' = 0
           ELSE pc' = "sending" /\ sleep_secs' = 0 /\ gi' = n /\ pi' = 1

\* no outer except clause: the exception ends the task
OnTickExceptionEndsTask ==
    /\ pc' = "stopped"
    /\ sleep_secs' = 0

\* the outer except clause: the iteration is abandoned for the recovery sleep
OnTickException ==
    /\ pc' = "sleeping"
    /\ sleep_secs' = RecoverySecs

\* the asyncio.sleep returns and the next iteration is ready to run
Wake ==
    /\ pc = "sleeping"
    /\ pc' = "fetching"
    /\ sleep_secs' = 0
    /\ user_reminders' = <<>>
    /\ gi' = 0
    /\ pi' = 0
    /\ checked' = <<>>
    /\ log' = <<>>
    /\ UNCHANGED <<today, dbVars, active_users, fsm, interacted, fnVars>>

\* the iteration up to its first suspension; db_ok: the SELECT raised no sqlite error
Fetch(db_ok) ==
    /\ pc = "fetching"
    /\ LET people == get_people_with_birthday_in_days(rows, 1, today) IN
       IF ~db_ok \/ people.raised
       THEN /\ OnTickException
            /\ UNCHANGED <<user_reminders, gi, pi, checked>>
       ELSE /\ user_reminders' = GroupByUser(people.val, <<>>)
            /\ RunFrom(user_reminders', 1, active_users)
    /\ log' = <<>>
    /\ UNCHANGED <<today, dbVars, active_users, fsm, interacted, fnVars>>

\* no except clause around the send: its exception reaches the outer except clause
DeliverUncaught(ok) ==
    /\ pc = "sending"
    /\ LET group == user_reminders[gi]
           person == group.persons[pi]
       IN  /\ log' = Append(log, [id |-> person.id, user_id |-> group.user_id, ok |-> ok])
           /\ IF ~ok
              THEN /\ OnTickException
                   /\ UNCHANGED <<active_users, gi, pi, checked>>
              ELSE /\ active_users' = active_users
                   /\ IF MorePersons(group, pi, ok)
                      THEN /\ pi' = pi + 1
                           /\ UNCHANGED <<pc, sleep_secs, gi, checked>>
                      ELSE RunFrom(user_reminders, gi + 1, active_users')
    /\ UNCHANGED <<today, dbVars, fsm, interacted, user_reminders, fnVars>>

\* bot.send_message returns (ok) or raises; the iteration runs on to its next suspension
Deliver(ok) ==
    /\ pc = "sending"
    /\ LET group == user_reminders[gi]
           person == group.persons[pi]
       IN  /\ log' = Append(log, [id |-> person.id, user_id |-> group.user_id, ok |-> ok])
           /\ active_users' = AfterSend(active_users, group.user_id, ok)
           /\ IF MorePersons(group, pi, ok)
              THEN /\ pi' = pi + 1
                   /\ UNCHANGED <<pc, sleep_secs, gi, checked>>
              ELSE RunFrom(user_reminders, gi + 1, active_users')
    /\ UNCHANGED <<today, dbVars, fsm, interacted, user_reminders, fnVars>>

Scheduler ==
    \/ Wake
    \/ \E db_ok \in BOOLEAN : Fetch(db_ok)
    \/ \E ok \in BOOLEAN : Deliver(ok)

\* midnight of the host clock
AdvanceDay ==
    /\ today # LastDay
    /\ today' = NextDay(today)
    /\ UNCHANGED <<dbVars, active_users, fsm, interacted, schedVars, fnVars>>

----------------------------------------------------------------------------

\* the tables birthdays.db may hold when the process starts: none yet, or one row
\* "Zo", 2020-02-29 of some user, inserted by an earlier run
InitialTables ==
    {{}} \cup
    { {[id |-> 1, name |-> <<90, 111>>, birthday_date |-> <<2020, 2, 29>>, user_id |-> u]}
      : u \in Users }

Init ==
    /\ today = FirstDay
    /\ rows \in InitialTables
    /\ next_id = Cardinality(rows) + 1
    /\ active_users = {}
    /\ fsm = [u \in Users |-> [state |-> "none", name |-> <<>>]]
    /\ interacted = {}
    /\ pc = "fetching"
    /\ sleep_secs = 0
    /\ user_reminders = <<>>
    /\ gi = 0
    /\ pi = 0
    /\ checked = <<>>
    /\ log = <<>>
    /\ fn_birthday = FirstDay
    /\ fn_today = FirstDay
    /\ fn_age = <<>>
    /\ fn_days = <<>>

Next ==
    \/ \E u \in Users : Interaction(u)
    \/ Scheduler
    \/ AdvanceDay

Spec == Init /\ [][Next]_vars

FairSpec == Spec /\ WF_vars(Scheduler)

----------------------------------------------------------------------------
(* The date functions of BirthdayDatabase called on their own: the         *)
(* arguments are drawn from bounded sets of dates, the bot stands still.   *)

\* the reference dates are all days of this many years, from 2023 on
MaxRefYears == 3

RefYears == 2023..(2022 + MaxRefYears)

\* the birth dates: these days of the years 1990, 2020 and 2024
BirthMonthDays == { <<1, 1>>, <<2, 28>>, <<2, 29>>, <<3, 1>>, <<3, 15>>, <<12, 31>> }

BirthYears == {1990, 2020, 2024}

BirthDates ==
    { dt \in { Date(y, md[1], md[2]) : y \in BirthYears, md \in BirthMonthDays } :
        ValidDate(dt.year, dt.month, dt.day) }

RefDates ==
    { dt \in { Date(y, m, d) : y \in RefYears, m \in 1..12, d \in 1..31 } :
        ValidDate(dt.year, dt.month, dt.day) }

\* a caller passes a birthday and a reference date; nothing has been returned yet
DateInit ==
    /\ today = FirstDay
    /\ rows = {}
    /\ next_id = 1
    /\ active_users = {}
    /\ fsm = [u \in Users |-> [state |-> "none", name |-> <<>>]]
    /\ interacted = {}
    /\ pc = "sleeping"
    /\ sleep_secs = 0
    /\ user_reminders = <<>>
    /\ gi = 0
    /\ pi = 0
    /\ checked = <<>>
    /\ log = <<>>
    /\ fn_birthday \in BirthDates
    /\ fn_today \in RefDates
    /\ fn_age = <<>>
    /\ fn_days = <<>>

\* age = db.calculate_age(birthday)
CallCalculateAge ==
    /\ fn_age = <<>>
    /\ fn_age' = <<Return(calculate_age(fn_birthday, fn_today))>>
    /\ UNCHANGED <<botVars, fn_birthday, fn_today, fn_days>>

\* days_until = db.days_until_birthday(birthday): a value or a ValueError
CallDaysUntilBirthday ==
    /\ fn_days = <<>>
    /\ fn_days' = <<days_until_birthday(fn_birthday, fn_today)>>
    /\ UNCHANGED <<botVars, fn_birthday, fn_today, fn_age>>

DateNext ==
    \/ CallCalculateAge
    \/ CallDaysUntilBirthday

DateSpec == DateInit /\ [][DateNext]_vars

----------------------------------------------------------------------------
(* What the claims speak of *)

\* the iteration ended normally and the task is in its hourly sleep
TickDone == pc = "sleeping" /\ sleep_secs = HourSecs

\* the deliveries of this tick for person id
Attempts(id) == {i \in 1..Len(log) : log[i].id = id}

\* a delivery of this tick to user u failed
FailedTo(u) == \E i \in 1..Len(log) : log[i].user_id = u /\ ~log[i].ok

\* the ids of the stored rows whose days_until is days
DueIds(table, days, now) ==
    {r.id : r \in {x \in table :
        LET d == days_until_birthday(strptime_iso(x.birthday_date).val, now)
        IN  ~d.raised /\ d.val = days}}

\* the ids of the persons of the tick's groups
GroupedIds ==
    UNION {{user_reminders[g].persons[k].id : k \in 1..Len(user_reminders[g].persons)}
           : g \in 1..Len(user_reminders)}

\* this step is a fetch that succeeded
FetchedStep == pc = "fetching" /\ pc' # "fetching" /\ sleep_secs' # RecoverySecs

\* this step completed a delivery
DeliveredStep == Len(log') = Len(log) + 1

----------------------------------------------------------------------------
(* C1: once a delivery to owner U fails in a tick, U is removed from the    *)
(* reachability set and no further delivery is attempted in that tick for  *)
(* the remaining persons of U's group.  The loop over the persons of a     *)
(* group goes on after the failure, so this is violated.                   *)
C1_StopAfterFailure ==
    [][DeliveredStep =>
        LET e == log'[Len(log')] IN
        /\ ~e.ok => e.user_id \notin active_users'
        /\ \A i \in 1..Len(log) : ~log[i].ok => log[i].user_id # e.user_id]_vars

(* C2: in a tick, every person fetched with days_until = 1 whose owner is   *)
(* in the reachability set when the owner's group is reached gets exactly  *)
(* one delivery; if no delivery to the owner failed, the owner is still in *)
(* the set after the tick.  The groups hold exactly the stored rows with   *)
(* days_until = 1 at the fetch.                                            *)
C2_OnePerPerson ==
    /\ [][FetchedStep => GroupedIds' = DueIds(rows, 1, today)]_vars
    /\ [](\A id \in GroupedIds : Cardinality(Attempts(id)) <= 1)
    /\ [](TickDone =>
            \A g \in 1..Len(user_reminders) :
                LET u == user_reminders[g].user_id IN
                checked[g].member =>
                    /\ \A k \in 1..Len(user_reminders[g].persons) :
                           Cardinality(Attempts(user_reminders[g].persons[k].id)) = 1
                    /\ ~FailedTo(u) => u \in active_users)

\* a tick ended in which a reachable owner got every delivery of a group of two
C2_Witness ==
    /\ TickDone
    /\ \E g \in 1..Len(user_reminders) :
          /\ checked[g].member
          /\ Len(user_reminders[g].persons) = 2
          /\ ~FailedTo(user_reminders[g].user_id)
          /\ Len(log) >= 2

(* C3: the scheduler never attempts a delivery to an owner who has produced *)
(* no interaction event since the process started.                         *)
C3_OnlyInteracted ==
    /\ \A i \in 1..Len(log) : log[i].user_id \in interacted
    /\ pc = "sending" => user_reminders[gi].user_id \in interacted

\* a tick ended that fetched a person of an owner who never interacted, and
\* delivered to another owner
C3_Witness ==
    /\ TickDone
    /\ \E g \in 1..Len(user_reminders) : user_reminders[g].user_id \notin interacted
    /\ log # <<>>

\* the fetch of a tick raises in this state
FetchRaises == get_people_with_birthday_in_days(rows, 1, today).raised

\* every group that was entered has a delivery for each of its persons
EnteredGroupsAttempted ==
    /\ Len(checked) = Len(user_reminders)
    /\ \A g \in 1..Len(user_reminders) :
          checked[g].member =>
              \A k \in 1..Len(user_reminders[g].persons) :
                  Attempts(user_reminders[g].persons[k].id) # {}

(* C4: the scheduler loop never ends because of an error: a tick whose      *)
(* fetch raises is abandoned without a delivery for the one-minute         *)
(* recovery sleep, a tick that completes sleeps one hour, every sleep is   *)
(* followed by the fetch of a new scan, and a new scan always eventually   *)
(* begins.                                                                 *)
C4_LoopNeverStops ==
    /\ [][pc = "fetching" /\ pc' # "fetching" /\ FetchRaises =>
            pc' = "sleeping" /\ sleep_secs' = RecoverySecs /\ log' = <<>>]_vars
    /\ [][pc # "sleeping" /\ pc' = "sleeping" =>
            \/ sleep_secs' = HourSecs /\ EnteredGroupsAttempted'
            \/ sleep_secs' = RecoverySecs /\ pc = "fetching" /\ log' = <<>>]_vars
    /\ [][pc = "sleeping" /\ pc' # "sleeping" => pc' = "fetching"]_vars
    /\ [](pc \in {"sleeping", "fetching", "sending"})
    /\ []<>(pc = "fetching")

\* the task is in the recovery sleep after a fetch that raised on a Feb 29 row
C4_Witness == pc = "sleeping" /\ sleep_secs = RecoverySecs /\ FetchRaises

(* C5: a delivery failure for one owner never aborts the tick: while a      *)
(* failed delivery is in the tick's log the tick is still delivering, or   *)
(* it has ended in the one-hour sleep with every entered group attempted.  *)
C5_FailureDoesNotAbort ==
    (\E i \in 1..Len(log) : ~log[i].ok) =>
        \/ pc = "sending"
        \/ TickDone /\ EnteredGroupsAttempted

\* a tick ended in which a delivery failed and a later one went to another owner
C5_Witness ==
    /\ TickDone
    /\ \E i, j \in 1..Len(log) :
          i < j /\ ~log[i].ok /\ log[j].user_id # log[i].user_id

(* C6: every inbound interaction event of an owner adds the owner to the    *)
(* reachability set.  The delete-confirmation, cancel and help buttons     *)
(* do not, so this is violated.                                            *)
C6_EveryEventActivates ==
    [][\A u \in Users : Interaction(u) => u \in active_users']_vars

(* C7: an owner leaves the reachability set only in a step that completes   *)
(* a failed delivery to that same owner.                                   *)
C7_OnlyFailedDeliveryEvicts ==
    [][\A u \in active_users \ active_users' :
          /\ DeliveredStep
          /\ log'[Len(log')].user_id = u
          /\ ~log'[Len(log')].ok]_vars

\* an owner was evicted by a failed delivery while another owner stayed in the set
C7_Witness ==
    /\ \E i \in 1..Len(log) : ~log[i].ok /\ log[i].user_id \notin active_users
    /\ active_users # {}

\* the ids get_all_people returns
ListedIds(people) == {people[i].id : i \in 1..Len(people)}

Owns(u, person_id) == \E r \in rows : r.id = person_id /\ r.user_id = u

(* C9: a delete request of owner U removes a record only if U owns it; a    *)
(* request naming another owner's record or no record leaves storage       *)
(* unchanged and is answered with the failure message.  When listing U's   *)
(* records raises, the handler ends without an answer, so this is violated.*)
C9_DeleteOnlyOwn ==
    \A u \in Users, person_id \in 1..(MaxRows + 1), db_ok \in BOOLEAN :
        /\ \A r \in rows \ confirm_delete_rows(u, person_id, db_ok) :
               r.id = person_id /\ r.user_id = u
        /\ ~Owns(u, person_id) =>
               /\ confirm_delete_rows(u, person_id, db_ok) = rows
               /\ confirm_delete_answer(u, person_id, db_ok) = "delete_error"

(* C10: whenever a dialog step answers with a validation error (name too    *)
(* short, date in the future, invalid date format), no record was created  *)
(* and the dialog stays in the same step.  The invalid-format answer is    *)
(* also sent after the record of a Feb 29 birth date was inserted, so this *)
(* is violated.                                                            *)
C10_ValidationChangesNothing ==
    [][\A u \in Users :
          /\ \A text \in NameTexts :
                 process_name(u, text) /\ process_name_answer(u, text) = "name_too_short"
                     => rows' = rows /\ fsm' = fsm
          /\ \A text \in DateTexts, db_ok \in BOOLEAN :
                 /\ process_date(u, text, db_ok)
                 /\ process_date_answer(text, db_ok, today)
                        \in {"date_future", "date_format_error"}
                 => rows' = rows /\ fsm' = fsm]_vars

\* the birth date a stored row holds
BirthDate(r) == strptime_iso(r.birthday_date).val

(* C11: every stored record has a name of length at least 2 after           *)
(* trimming; a record is created with a birth date not strictly after the  *)
(* day it is created on; submitting a future birth date creates no record. *)
C11_RecordsAreValid ==
    /\ [](\A r \in rows : Len(strip(r.name)) >= 2)
    /\ [][\A r \in rows' \ rows :
             /\ Len(strip(r.name)) >= 2
             /\ ~DateLT(today, BirthDate(r))]_vars
    /\ [][\A u \in Users, text \in DateTexts, db_ok \in BOOLEAN :
             /\ process_date(u, text, db_ok)
             /\ ~strptime_dmy(text).raised
             /\ DateLT(today, strptime_dmy(text).val)
             => rows' = rows]_vars

\* a record created by the dialog of this run ("Bo") is stored
C11_Witness == \E r \in rows : r.name = <<66, 111>> /\ r.id = next_id - 1

----------------------------------------------------------------------------
(* The date functions *)

\* the reference date is the birthday's month and day
SameMonthDay == fn_today.month = fn_birthday.month /\ fn_today.day = fn_birthday.day

\* days_until_birthday has returned v
DaysReturned(v) == fn_days # <<>> /\ fn_days[1] = Return(v)

(* C12: for every birth date b and reference date t, days_until_birthday    *)
(* returns 0 if and only if t's month and day are b's month and day (on    *)
(* the inputs where it raises, t's month and day are not b's).             *)
C12_ZeroIffBirthday ==
    fn_days # <<>> => (DaysReturned(0) <=> SameMonthDay)

\* 0 was returned on the birthday itself, in a later year
C12_Witness == DaysReturned(0) /\ fn_birthday.year < fn_today.year

\* 0 was returned for a Feb 29 birthday
C12_WitnessLeapDay == DaysReturned(0) /\ fn_birthday.day = 29

\* the birthday is a Feb 29
LeapDayBirthday == fn_birthday.month = 2 /\ fn_birthday.day = 29

(* C13: for every birth date b and reference date t, days_until_birthday *)
(* returns a value, which is in 0..366, and in 0..365 when b is not a      *)
(* Feb 29, in leap and non-leap reference years and across the year        *)
(* boundary.                                                               *)
C13_DaysUntilInRange ==
    fn_days # <<>> =>
        /\ ~fn_days[1].raised
        /\ fn_days[1].val \in 0..366
        /\ ~LeapDayBirthday => fn_days[1].val \in 0..365

\* what holds of the code: the values returned are in range, and a birthday
\* that is not a Feb 29 always gets one
C13_ReturnedInRange ==
    fn_days # <<>> =>
        /\ ~fn_days[1].raised => fn_days[1].val \in 0..366
        /\ ~LeapDayBirthday => ~fn_days[1].raised /\ fn_days[1].val \in 0..365

\* calculate_age has returned v
AgeReturned(v) == fn_age # <<>> /\ fn_age[1] = Return(v)

\* the reference date one year on, t.replace(year = t.year + 1): the same month
\* and day of the next year, which a Feb 29 does not have
HasPlusOneYear(t) == ValidDate(t.year + 1, t.month, t.day)
PlusOneYear(t) == Date(t.year + 1, t.month, t.day)

(* C14: for every birth date b and reference date t >= b the age is >= 0;   *)
(* a year later (the same month and day of the next year, so that exactly  *)
(* one birthday lies in between) the age is one more; and the age is the   *)
(* difference of the years minus 1 exactly when (t.month, t.day) <         *)
(* (b.month, b.day), the difference itself otherwise.                      *)
C14_AgeLaws ==
    fn_age # <<>> /\ ~DateLT(fn_today, fn_birthday) =>
        LET age == fn_age[1].val
            years == fn_today.year - fn_birthday.year
        IN  /\ ~fn_age[1].raised
            /\ age >= 0
            /\ HasPlusOneYear(fn_today) =>
                   calculate_age(fn_birthday, PlusOneYear(fn_today)) = age + 1
            /\ age = years - 1 <=> MonthDayLT(fn_today, fn_birthday)
            /\ age \in {years - 1, years}

\* an age was returned in a year whose birthday is still to come
C14_Witness ==
    /\ fn_age # <<>>
    /\ DateLT(fn_birthday, fn_today)
    /\ MonthDayLT(fn_today, fn_birthday)
    /\ fn_age[1].val = fn_today.year - fn_birthday.year - 1

\* age 0 was returned on the day of birth
C14_WitnessDayOfBirth == AgeReturned(0) /\ fn_today = fn_birthday

\* the first date on or after t whose month and day are b's
NextOccurrence(b, t) ==
    LET Occurs(y) == ValidDate(y, b.month, b.day) /\ ~DateLT(Date(y, b.month, b.day), t)
        y == CHOOSE y \in t.year..(t.year + 8) :
                Occurs(y) /\ \A z \in t.year..(y - 1) : ~Occurs(z)
    IN  Date(y, b.month, b.day)

DaysToNextOccurrence(b, t) == ToOrdinal(NextOccurrence(b, t)) - ToOrdinal(t)

\* Scenarios A and B of the specification
ScenarioBirthday == Date(1990, 3, 15)
ScenarioA == fn_birthday = ScenarioBirthday /\ fn_today = Date(2024, 3, 14)
ScenarioB == fn_birthday = ScenarioBirthday /\ fn_today = Date(2024, 3, 15)

\* the two scenarios give age 33 and 1 day, age 34 and 0 days
ScenariosHold ==
    /\ ScenarioA /\ fn_age # <<>> => AgeReturned(33)
    /\ ScenarioA /\ fn_days # <<>> => DaysReturned(1)
    /\ ScenarioB /\ fn_age # <<>> => AgeReturned(34)
    /\ ScenarioB /\ fn_days # <<>> => DaysReturned(0)

\* on the birthday the age is the difference of the years, before it one less
AgeConsistent ==
    fn_age # <<>> /\ fn_days # <<>> /\ ~fn_days[1].raised =>
        fn_age[1].val = NextOccurrence(fn_birthday, fn_today).year - fn_birthday.year
                        - (IF fn_days[1].val = 0 THEN 0 ELSE 1)

(* C15: days_until_birthday returns the number of days from t to the first  *)
(* date on or after t whose month and day are b's, the age agrees with it, *)
(* and Scenarios A and B give age 33 with 1 day and age 34 with 0 days.    *)
C15_DaysToNextOccurrence ==
    /\ fn_days # <<>> => fn_days[1] = Return(DaysToNextOccurrence(fn_birthday, fn_today))
    /\ AgeConsistent
    /\ ScenariosHold

\* what holds of the code: whatever is returned is that number of days
C15_ReturnedIsNextOccurrence ==
    /\ fn_days # <<>> /\ ~fn_days[1].raised =>
           fn_days[1].val = DaysToNextOccurrence(fn_birthday, fn_today)
    /\ fn_days # <<>> /\ ~LeapDayBirthday => ~fn_days[1].raised
    /\ AgeConsistent
    /\ ScenariosHold

\* both functions have returned in Scenario A, in Scenario B
C15_ScenarioAReached == ScenarioA /\ AgeReturned(33) /\ DaysReturned(1)
C15_ScenarioBReached == ScenarioB /\ AgeReturned(34) /\ DaysReturned(0)

----------------------------------------------------------------------------
(* The reminder window *)

\* person id of owner u is stored and its days_until is 1
Due(id, u) ==
    \E r \in rows :
        /\ r.id = id
        /\ r.user_id = u
        /\ days_until_birthday(BirthDate(r), today) = Return(1)

\* a reminder for person id was delivered to owner u in the current tick
Reminded(id, u) ==
    \E i \in 1..Len(log) : log[i] = [id |-> id, user_id |-> u, ok |-> TRUE]

\* this step enters the group of owner u: the first send to u of a tick begins
EntersGroupOf(u) ==
    /\ pc' = "sending"
    /\ user_reminders'[gi'].user_id = u
    /\ pc # "sending" \/ gi' # gi

\* the last fetch failed on the storage itself (an sqlite error), not on a row
StorageFailed == pc = "sleeping" /\ sleep_secs = RecoverySecs /\ ~FetchRaises

\* while person id stays due, owner u stays reachable and the storage answers, a
\* reminder for id is delivered to u
EventuallyReminded ==
    \A u \in Users, id \in 1..MaxRows :
        (Due(id, u) /\ u \in active_users)
            ~> (Reminded(id, u) \/ ~Due(id, u) \/ u \notin active_users \/ StorageFailed)

\* a failed delivery evicts the owner, only an interaction of the owner brings
\* them back, and no tick begins sending to an owner who is not in the set
NoAttemptsUntilInteraction ==
    [][\A u \in Users :
          /\ DeliveredStep /\ log'[Len(log')].user_id = u /\ ~log'[Len(log')].ok
                => u \notin active_users'
          /\ u \notin active_users /\ u \in active_users' => Interaction(u)
          /\ EntersGroupOf(u) => u \in active_users']_vars

(* C16: while a person's days_until stays 1 and the owner, skipped or       *)
(* evicted by an earlier tick, has become reachable and stays so, fair     *)
(* ticking eventually delivers a reminder for the person to the owner;     *)
(* and an owner evicted by a failed delivery gets no attempt in a later    *)
(* tick until they interact again.                                         *)
C16_ReminderWindow == EventuallyReminded /\ NoAttemptsUntilInteraction

\* the same, but for the ticks whose fetch raises on a Feb 29 row
C16_UnlessFetchRaises ==
    /\ \A u \in Users, id \in 1..MaxRows :
          (Due(id, u) /\ u \in active_users)
              ~> (Reminded(id, u) \/ ~Due(id, u) \/ u \notin active_users
                    \/ StorageFailed \/ FetchRaises)
    /\ NoAttemptsUntilInteraction

----------------------------------------------------------------------------
(* The two-step dialog *)

\* the date step with this text reaches db.add_person
ReachesAdd(text, db_ok) ==
    process_date_path(text, db_ok, today) \in {"add_failed", "added_then_raised", "added"}

\* db.add_person returned True
AddSucceeded(text, db_ok) ==
    process_date_path(text, db_ok, today) \in {"added_then_raised", "added"}

\* records are created by the date step only, for the owner and under the name
\* the name step accepted
CreatedByDateStepOnly ==
    /\ [][\A r \in rows' \ rows :
             \E text \in DateTexts, db_ok \in BOOLEAN :
                 /\ process_date(r.user_id, text, db_ok)
                 /\ r.name = fsm[r.user_id].name]_vars
    /\ [][\A u \in Users :
             fsm[u].state # "waiting_for_date" /\ fsm'[u].state = "waiting_for_date" =>
                 \E text \in NameTexts :
                     /\ process_name(u, text)
                     /\ ~TooShort(strip(text))
                     /\ fsm'[u].name = strip(text)]_vars

\* a record exists for a submission exactly if the add succeeded
RecordIffAddSucceeded ==
    [][\A u \in Users, text \in DateTexts, db_ok \in BOOLEAN :
          process_date(u, text, db_ok) =>
              IF AddSucceeded(text, db_ok)
              THEN \E r \in rows' \ rows :
                      /\ r.user_id = u
                      /\ r.birthday_date = isoformat(strptime_dmy(text).val)
                      /\ rows' = rows \cup {r}
              ELSE rows' = rows]_vars

(* C17: a record is created only by the date step, which an owner reaches   *)
(* only through a name step that accepted a name; once the date step       *)
(* reaches the storage add, whether the add succeeds or fails, the owner's *)
(* dialog state is cleared; and a record exists for the submission if and  *)
(* only if the add succeeded.                                              *)
C17_DialogCreatesRecords ==
    /\ CreatedByDateStepOnly
    /\ RecordIffAddSucceeded
    /\ [][\A u \in Users, text \in DateTexts, db_ok \in BOOLEAN :
             process_date(u, text, db_ok) /\ ReachesAdd(text, db_ok) =>
                 fsm'[u] = [state |-> "none", name |-> <<>>]]_vars

\* what holds of the code: the dialog state is cleared unless days_until_birthday
\* raised after the add
C17_ClearedUnlessRaised ==
    /\ CreatedByDateStepOnly
    /\ RecordIffAddSucceeded
    /\ [][\A u \in Users, text \in DateTexts, db_ok \in BOOLEAN :
             process_date(u, text, db_ok) /\ ReachesAdd(text, db_ok) =>
                 IF process_date_path(text, db_ok, today) = "added_then_raised"
                 THEN fsm'[u] = fsm[u]
                 ELSE fsm'[u] = [state |-> "none", name |-> <<>>]]_vars

----------------------------------------------------------------------------
(* The tick's fetch *)

\* the ids of the stored rows
RowIds == {r.id : r \in rows}

(* C18: every reminder attempted in a tick is for a person that was stored  *)
(* with days_until == 1 at the tick's one fetch: the groups are what the   *)
(* fetch found and are not read again while the tick sends, every send is  *)
(* for the next person of the groups whatever the storage holds by then,   *)
(* and a person that is not in the groups gets no reminder in the tick.    *)
C18_FetchSnapshot ==
    /\ [][FetchedStep => GroupedIds' = DueIds(rows, 1, today)]_vars
    /\ [][pc = "sending" => user_reminders' = user_reminders]_vars
    /\ [][DeliveredStep =>
            /\ pc = "sending"
            /\ log'[Len(log')].id = user_reminders[gi].persons[pi].id
            /\ log'[Len(log')].user_id = user_reminders[gi].user_id]_vars
    /\ [](\A i \in 1..Len(log) : log[i].id \in GroupedIds)
    /\ [](\A r \in rows : r.id \notin GroupedIds => Attempts(r.id) = {})

\* a send is suspended, and the person whose send comes next was deleted since
\* the fetch
C18_WitnessSuspended ==
    /\ pc = "sending"
    /\ \E k \in 1..Len(user_reminders[gi].persons) :
          k > pi /\ user_reminders[gi].persons[k].id \notin RowIds

\* a tick ended that delivered a reminder for a person no longer stored, and
\* none for a due person that was added after its fetch
C18_Witness ==
    /\ TickDone
    /\ \E i \in 1..Len(log) : log[i].ok /\ log[i].id \notin RowIds
    /\ \E r \in rows :
          /\ r.id \notin GroupedIds
          /\ Due(r.id, r.user_id)
          /\ r.user_id \in active_users
          /\ Attempts(r.id) = {}

----------------------------------------------------------------------------
(* Feb 29 records *)

\* the year of the next Feb 29 birthday as of t: this year if Feb 29 is not yet
\* past, the next year otherwise
NextLeapDayYear(t) == IF MonthDayLT(Date(t.year, 2, 29), t) THEN t.year + 1 ELSE t.year

\* a Feb 29 record is stored and its next occurrence falls in a non-leap year
LeapDayTrap ==
    /\ \E r \in rows : BirthDate(r).month = 2 /\ BirthDate(r).day = 29
    /\ ~IsLeap(NextLeapDayYear(today))

(* C19: while a Feb 29 record is stored and its next occurrence falls in a  *)
(* non-leap year, every tick fails at its fetch: the fetch step groups     *)
(* nothing, delivers nothing and ends in the recovery sleep, no send       *)
(* begins and no tick completes, and under fair ticking the loop goes on   *)
(* fetching again and again without ever completing a tick.                *)
C19_LeapDayTrapBlocksTicks ==
    /\ [][LeapDayTrap /\ pc = "fetching" /\ pc' # "fetching" =>
            /\ pc' = "sleeping"
            /\ sleep_secs' = RecoverySecs
            /\ user_reminders' = <<>>
            /\ log' = <<>>]_vars
    /\ [][LeapDayTrap /\ pc # "sending" /\ ~TickDone =>
            pc' # "sending" /\ ~TickDone']_vars
    /\ [](LeapDayTrap => FetchRaises)
    /\ <>[]LeapDayTrap => <>[](pc # "sending" /\ ~TickDone /\ log = <<>>)
    /\ <>[]LeapDayTrap => []<>(pc = "fetching")
    /\ <>[]LeapDayTrap => []<>(pc = "sleeping" /\ sleep_secs = RecoverySecs)

\* the loop is in the recovery sleep while a person of a reachable owner is due
C19_Witness ==
    /\ LeapDayTrap
    /\ pc = "sleeping"
    /\ sleep_secs = RecoverySecs
    /\ log = <<>>
    /\ \E r \in rows : Due(r.id, r.user_id) /\ r.user_id \in active_users

\* the function itself, over all the reference dates: a Feb 29 birthday whose
\* next occurrence falls in a non-leap year makes days_until_birthday raise
C19_TrapRaises ==
    fn_days # <<>> /\ LeapDayBirthday /\ ~IsLeap(NextLeapDayYear(fn_today)) =>
        fn_days[1].raised

====
